---------------------------- MODULE Spec2Model ----------------------------
(***************************************************************************)
(* Model of lib/vfscore/automount.c (Unikraft VFS automatic mounts):       *)
(* the fstab tokenizer, the mount-option processor, the volume mount       *)
(* dispatcher, the root resolver, the fstab table driver and the           *)
(* boot/shutdown orchestrator.                                             *)
(*                                                                         *)
(* C strings are modelled at character level.  A buffer is a sequence of   *)
(* one-character strings in which NUL marks a terminator; a pointer into   *)
(* a buffer is its 1-based index, NULL is 0, and EMPTYLIT stands for a     *)
(* pointer to the string literal "" (which lies outside every buffer).     *)
(***************************************************************************)
EXTENDS Integers, Sequences, FiniteSets, TLC

----------------------------------------------------------------------------
(* Characters, buffers and pointers                                        *)

NUL == "NUL"
NULL == 0
EMPTYLIT == -1

\* The value of a NULL char pointer when a descriptor is printed or compared.
NullStr == <<"(null)">>

\* LIBVFSCORE_FSTAB_VOLUME_ARGS_SEP and LIBVFSCORE_FSTAB_UKOPTS_ARGS_SEP
VOLUME_ARGS_SEP == ":"
UKOPTS_ARGS_SEP == ","

EXTRACT_DRV == <<"e", "x", "t", "r", "a", "c", "t">>
EXTRACT_DEV_INITRD0 == <<"i", "n", "i", "t", "r", "d", "0">>
EXTRACT_DEV_EMBEDDED == <<"e", "m", "b", "e", "d", "d", "e", "d">>
MKMP == <<"m", "k", "m", "p">>

EINVAL == 22
EIO == 5
EEXIST == 17
EACCES == 13

\* The char at pointer p of buffer buf (buf[p] in C, p a valid index).
At(buf, p) == buf[p]

RECURSIVE ScanFor(_, _, _)
\* strchr: index of the first c at or after p and before the terminator of
\* the string that starts at p, NULL when there is none.
ScanFor(buf, p, c) ==
    IF p > Len(buf) \/ buf[p] = NUL THEN NULL
    ELSE IF buf[p] = c THEN p
    ELSE ScanFor(buf, p + 1, c)

strchr(buf, p, c) == ScanFor(buf, p, c)

RECURSIVE StrEnd(_, _)
\* Index of the terminator of the string that starts at p.
StrEnd(buf, p) ==
    IF p > Len(buf) \/ buf[p] = NUL THEN p ELSE StrEnd(buf, p + 1)

\* The C string a pointer denotes, as a sequence of chars without the NUL.
CStr(buf, p) ==
    IF p = NULL THEN NullStr
    ELSE IF p = EMPTYLIT THEN <<>>
    ELSE SubSeq(buf, p, StrEnd(buf, p) - 1)

\* A string placed in a fresh buffer, terminator appended.
ToBuf(s) == Append(s, NUL)

RECURSIVE Join(_, _)
\* Fields joined with a separator char.
Join(fs, sep) ==
    IF Len(fs) = 0 THEN <<>>
    ELSE IF Len(fs) = 1 THEN fs[1]
    ELSE fs[1] \o <<sep>> \o Join(Tail(fs), sep)

----------------------------------------------------------------------------
(* strtol(s, NULL, 0): base detection by prefix, digits consumed up to the  *)
(* first char that is no digit of the base; no digits gives 0.              *)

HexDigits == <<"0", "1", "2", "3", "4", "5", "6", "7", "8", "9",
               "a", "b", "c", "d", "e", "f">>

DigitVal(c) ==
    IF \E k \in 1..16 : HexDigits[k] = c
    THEN (CHOOSE k \in 1..16 : HexDigits[k] = c) - 1
    ELSE 99

RECURSIVE Accum(_, _, _)
Accum(s, base, acc) ==
    IF Len(s) = 0 \/ DigitVal(s[1]) >= base THEN acc
    ELSE Accum(Tail(s), base, acc * base + DigitVal(s[1]))

strtol(s) ==
    IF Len(s) >= 3 /\ s[1] = "0" /\ s[2] = "x" /\ DigitVal(s[3]) < 16
    THEN Accum(SubSeq(s, 3, Len(s)), 16, 0)
    ELSE IF Len(s) >= 1 /\ s[1] = "0"
    THEN Accum(s, 8, 0)
    ELSE Accum(s, 10, 0)

----------------------------------------------------------------------------
(* Fstab tokenizer                                                         *)

\* Variant: an empty argument is returned as a pointer to "".
ArgOut_keepempty(buf, argptr, arg) ==
    [buf |-> buf, argptr |-> argptr, arg |-> arg]

\* next_volume_arg, "out:": return NULL for an empty argument.
ArgOut(buf, argptr, arg) ==
    [buf |-> buf, argptr |-> argptr,
     arg |-> IF At(buf, arg) = NUL THEN NULL ELSE arg]

\* Variant: the separator is left in place.
ArgSplit_keepsep(buf, arg, nsep) ==
    IF nsep = NULL
    THEN [buf |-> buf, argptr |-> NULL,
          arg |-> IF At(buf, arg) = NUL THEN NULL ELSE arg]
    ELSE [buf |-> buf, argptr |-> nsep + 1,
          arg |-> IF At(buf, arg) = NUL THEN NULL ELSE arg]

\* next_volume_arg once strchr has given nsep: without a separator this is
\* the last argument; otherwise the separator is overwritten and argptr
\* moves behind it.
ArgSplit(buf, arg, nsep) ==
    IF nsep = NULL
    THEN ArgOut(buf, NULL, arg)
    ELSE ArgOut([buf EXCEPT ![nsep] = NUL], nsep + 1, arg)

\* next_volume_arg(&argptr): the next ':'-separated argument of the buffer,
\* NULL for an empty or missing one.
next_volume_arg(buf, argptr) ==
    IF argptr = NULL \/ At(buf, argptr) = NUL
    THEN [buf |-> buf, argptr |-> NULL, arg |-> NULL]
    ELSE ArgSplit(buf, argptr, strchr(buf, argptr, VOLUME_ARGS_SEP))

\* The tokenizer's progress: the buffer, pos, and the arguments returned so
\* far (1 sdev, 2 path, 3 drv, 4 strflags, 5 opts, 6 ukopts).
TakeArg(t, a) ==
    [buf |-> a.buf, argptr |-> a.argptr, args |-> Append(t.args, a.arg)]

NextArg(t) == TakeArg(t, next_volume_arg(t.buf, t.argptr))

\* pos = v; followed by the six calls of next_volume_arg(&pos).
SixArgs(buf) ==
    NextArg(NextArg(NextArg(NextArg(NextArg(NextArg(
        [buf |-> buf, argptr |-> 1, args |-> <<>>]))))))

\* struct vfscore_volume as left by a caller that never wrote it: the five
\* pointers are overwritten by every parse, flags is not.
FlagsUninit == -1

Parsed(t, vol, rc, err) ==
    [buf |-> t.buf, vv |-> vol, strflags |-> t.args[4], rc |-> rc,
     err |-> err]

\* if (strflags && strflags[0] != '\0') flags = strtol(strflags, NULL, 0);
\* else flags = 0;
ParseFlags(buf, strflags) ==
    IF strflags # NULL /\ At(buf, strflags) # NUL
    THEN strtol(CStr(buf, strflags)) ELSE 0

\* Variant: the path is not checked.
ParseAbsolute_unchecked(t, vol) ==
    Parsed(t, [vol EXCEPT !.flags = ParseFlags(t.buf, t.args[4])], 0, "none")

\* Check that given path is absolute, then parse flags.
ParseAbsolute(t, vol) ==
    IF At(t.buf, vol.path) # "/"
    THEN Parsed(t, vol, -EINVAL, "InvalidPath")
    ELSE Parsed(t, [vol EXCEPT !.flags = ParseFlags(t.buf, t.args[4])],
                0, "none")

\* Variant: only the path is mandatory.
ParseMandatory_pathonly(t, vol) ==
    IF vol.path = NULL
    THEN Parsed(t, vol, -EINVAL, "MalformedEntry")
    ELSE ParseAbsolute(t, IF vol.sdev = NULL
                          THEN [vol EXCEPT !.sdev = EMPTYLIT] ELSE vol)

\* path and drv are mandatory; fill source device with empty string if
\* missing.
ParseMandatory(t, vol) ==
    IF vol.path = NULL \/ vol.drv = NULL
    THEN Parsed(t, vol, -EINVAL, "MalformedEntry")
    ELSE ParseAbsolute(t, IF vol.sdev = NULL
                          THEN [vol EXCEPT !.sdev = EMPTYLIT] ELSE vol)

ParseFields(t, flags) ==
    ParseMandatory(t, [sdev |-> t.args[1], path |-> t.args[2],
                       drv |-> t.args[3], flags |-> flags,
                       opts |-> t.args[5], ukopts |-> t.args[6]])

\* vfscore_parse_volume(v, &vv): buf is the entry's buffer (v points to its
\* start), vv the descriptor as the caller holds it on entry.  The result
\* has the buffer as mutated, the descriptor as written, the local strflags,
\* the return code and the diagnostic that was logged.
vfscore_parse_volume(buf, vv) == ParseFields(SixArgs(buf), vv.flags)

----------------------------------------------------------------------------
(* Calls to the external primitives are recorded as events                 *)
(*   [op, who, res, arg]                                                   *)
(* who is the descriptor on whose behalf the call is made: ROOT for the    *)
(* root descriptor, OVERLAY for the ramdisk-extraction descriptor, and the *)
(* C index 0, 1, ... of an fstab entry.                                    *)

ROOT == -2
OVERLAY == -1

Ev(op, who, res, arg) == [op |-> op, who |-> who, res |-> res, arg |-> arg]

\* S_IRWXU, the mode of every mkdir: 0700
S_IRWXU == 448

\* Number of occurrences of char c in string s.
RECURSIVE Count(_, _)
Count(s, c) ==
    IF Len(s) = 0 THEN 0
    ELSE (IF s[1] = c THEN 1 ELSE 0) + Count(Tail(s), c)

----------------------------------------------------------------------------
(* Mount-option processor                                                  *)

\* What vfscore_ukopt_mkmp and vfscore_volume_process_ukopts hand back: the
\* buffer as left, the return code, the mkdir events, the diagnostic.
OptRet(buf, rc, calls, err) ==
    [buf |-> buf, rc |-> rc, calls |-> calls, err |-> err]

\* The '.' / '..' test of vfscore_ukopt_mkmp on the segment after prev_pos.
DotSegment(buf, prev_pos) ==
    /\ At(buf, prev_pos + 1) = "."
    /\ \/ /\ At(buf, prev_pos + 2) = "."
          /\ (At(buf, prev_pos + 3) = "/" \/ At(buf, prev_pos + 3) = NUL)
       \/ (At(buf, prev_pos + 2) = "/" \/ At(buf, prev_pos + 2) = NUL)

RECURSIVE SkipSlashes(_, _)
\* while (pos && pos[1] == '/') pos++;
SkipSlashes(buf, pos) ==
    IF At(buf, pos + 1) = "/" THEN SkipSlashes(buf, pos + 1) ELSE pos

\* *pos = c; when pos is not NULL.
Poke(buf, pos, c) == IF pos # NULL THEN [buf EXCEPT ![pos] = c] ELSE buf

MkdirEv(buf, path, who, errno) ==
    Ev("mkdir", who, errno, [path |-> CStr(buf, path), mode |-> S_IRWXU])

RECURSIVE MkmpLoop(_, _, _, _, _, _)

\* Restore current '/', handle paths with multiple '/', while (pos).
MkmpRestore(buf, path, pos, who, mk, calls) ==
    IF pos = NULL
    THEN OptRet(buf, 0, calls, "none")
    ELSE MkmpLoop(buf, path, SkipSlashes(buf, pos), who, mk, calls)

\* Variant: the '/' that was zeroed out is not restored.
MkmpMkdir_norestore(buf, path, pos, who, mk, calls, errno) ==
    IF errno # 0 /\ errno # EEXIST
    THEN OptRet(buf, -errno, Append(calls, MkdirEv(buf, path, who, errno)),
                "MountPointCreationFailed")
    ELSE MkmpRestore(buf, path, pos, who, mk,
                     Append(calls, MkdirEv(buf, path, who, errno)))

\* rc = mkdir(path, 0700); if (rc && errno != EEXIST) return -errno;
MkmpMkdir(buf, path, pos, who, mk, calls, errno) ==
    IF errno # 0 /\ errno # EEXIST
    THEN OptRet(buf, -errno, Append(calls, MkdirEv(buf, path, who, errno)),
                "MountPointCreationFailed")
    ELSE MkmpRestore(Poke(buf, pos, "/"), path, pos, who, mk,
                     Append(calls, MkdirEv(buf, path, who, errno)))

\* Do not allow /./ or /../ in the path.
MkmpCheck(buf, path, prev_pos, pos, who, mk, calls) ==
    IF DotSegment(buf, prev_pos)
    THEN OptRet(buf, -EINVAL, calls, "UnsafePath")
    ELSE MkmpMkdir(buf, path, pos, who, mk, calls, mk[Len(calls) + 1])

\* Variant: the next '/' is not zeroed out.
MkmpCut_nocut(buf, path, prev_pos, pos, who, mk, calls) ==
    MkmpCheck(buf, path, prev_pos, pos, who, mk, calls)

\* if (pos) { if (pos[0] == '\0') break; *pos = '\0'; }
MkmpCut(buf, path, prev_pos, pos, who, mk, calls) ==
    IF pos # NULL /\ At(buf, pos) = NUL
    THEN OptRet(buf, 0, calls, "none")
    ELSE MkmpCheck(Poke(buf, pos, NUL), path, prev_pos, pos, who, mk, calls)

\* One iteration of the do-while of vfscore_ukopt_mkmp, entered with pos,
\* and the ones after it.  mk[n] is the errno of the n-th mkdir (0: the
\* directory was created); calls are the mkdir events so far.
MkmpLoop(buf, path, pos, who, mk, calls) ==
    MkmpCut(buf, path, pos, strchr(buf, pos + 1, "/"), who, mk, calls)

\* vfscore_ukopt_mkmp(path)
vfscore_ukopt_mkmp(buf, path, who, mk, calls) ==
    MkmpLoop(buf, path, path, who, mk, calls)

RECURSIVE UkoptsLoop(_, _, _, _, _, _)

\* rc = vfscore_ukopt_mkmp(vv->path); if (rc) return rc; o_curr = o_next;
UkoptsAfterMkmp(r, d, o_next, who, mk) ==
    IF r.rc # 0 THEN r
    ELSE UkoptsLoop(r.buf, d, o_next, who, mk, r.calls)

\* The option at o_curr, terminated: "mkmp" and the path is not "/".  A
\* NULL vv->path reaches this place only where reading through it yields a
\* zero byte.
UkoptsOne(buf, d, o_curr, o_next, who, mk, calls) ==
    IF /\ CStr(buf, o_curr) = MKMP
       /\ (IF d.path = NULL THEN NUL ELSE At(buf, d.path + 1)) # NUL
    THEN UkoptsAfterMkmp(vfscore_ukopt_mkmp(buf, d.path, who, mk, calls),
                         d, o_next, who, mk)
    ELSE UkoptsLoop(buf, d, o_next, who, mk, calls)

\* o_next = strchr(o_curr, ','); if (o_next) { *o_next = '\0'; o_next++; }
UkoptsSplit(buf, d, o_curr, sep, who, mk, calls) ==
    UkoptsOne(Poke(buf, sep, NUL), d, o_curr,
              IF sep # NULL THEN sep + 1 ELSE NULL, who, mk, calls)

\* The while (o_curr) loop of vfscore_volume_process_ukopts.
UkoptsLoop(buf, d, o_curr, who, mk, calls) ==
    IF o_curr = NULL
    THEN OptRet(buf, 0, calls, "none")
    ELSE UkoptsSplit(buf, d, o_curr, strchr(buf, o_curr, UKOPTS_ARGS_SEP),
                     who, mk, calls)

\* vfscore_volume_process_ukopts(vv)
vfscore_volume_process_ukopts(buf, d, who, mk) ==
    UkoptsLoop(buf, d, d.ukopts, who, mk, <<>>)

----------------------------------------------------------------------------
(* State                                                                   *)

VARIABLES
    pc,             \* position of the boot/shutdown sequence
    cfg,            \* build configuration: [initrd, einitrd, rootfs]
    initrd0,        \* boot-supplied ramdisk: ABSENT or its length
    einitrd_len,    \* &vfscore_einitrd_end - vfscore_einitrd_start
    vfscore_fstab,  \* the table: per slot a buffer, or NullSlot
    i,              \* loop index of vfscore_automount_fstab_volumes
    rc,             \* its local rc (RcUninit until first written)
    vv,             \* its local struct vfscore_volume
    trace,          \* events so far
    mount_list,     \* the live mount list, in append order
    ret,            \* what vfscore_automount returned (NoRet before)
    pin,            \* tokenizer check: the entry given
    pout            \* tokenizer check: the result of vfscore_parse_volume

vars == <<pc, cfg, initrd0, einitrd_len, vfscore_fstab, i, rc, vv, trace,
          mount_list, ret, pin, pout>>

ABSENT == -1
RcUninit == 99
NoRet == 98
NullSlot == <<>>
NotMounted == <<>>

----------------------------------------------------------------------------
(* Volume mount dispatcher                                                 *)

\* The strings of a descriptor (NullStr for a NULL pointer).
Strings(buf, d) ==
    [sdev |-> CStr(buf, d.sdev), path |-> CStr(buf, d.path),
     drv |-> CStr(buf, d.drv), flags |-> d.flags,
     opts |-> CStr(buf, d.opts), ukopts |-> CStr(buf, d.ukopts)]

\* What vfscore_mount_volume hands back: whether it faulted, its return
\* code, the events, the buffer as left, the path a successful mount added
\* to the mount list, the diagnostic.
VolRet(crashed, r, calls, buf, mounted, err) ==
    [crashed |-> crashed, rc |-> r, calls |-> calls, buf |-> buf,
     mounted |-> mounted, err |-> err]

\* rc = ukcpio_extract(vv->path, vbase, vlen); if (rc) return -EIO;
ExtractCall(path, who, vbase, vlen, ex) ==
    [rc |-> IF ex # 0 THEN -EIO ELSE 0,
     calls |-> <<Ev("extract", who, ex,
                    [path |-> path, vbase |-> vbase, vlen |-> vlen])>>,
     err |-> IF ex # 0 THEN "ExtractionFailed" ELSE "none"]

\* Variant: the lookup of the boot-supplied ramdisk is not tested.
vfscore_extract_volume_nolookup(sdev, path, who, ex) ==
    IF sdev = EXTRACT_DEV_INITRD0
    THEN ExtractCall(path, who, "initrd0",
                     IF initrd0 = ABSENT THEN 0 ELSE initrd0, ex)
    ELSE IF cfg.einitrd /\ sdev = EXTRACT_DEV_EMBEDDED
    THEN ExtractCall(path, who, "einitrd", einitrd_len, ex)
    ELSE [rc |-> -EINVAL, calls |-> <<>>, err |-> "ArchiveSourceNotFound"]

\* vfscore_extract_volume(vv): sdev and path are the descriptor's strings,
\* ex the result of ukcpio_extract.
vfscore_extract_volume(sdev, path, who, ex) ==
    IF sdev = EXTRACT_DEV_INITRD0
    THEN IF initrd0 = ABSENT \/ initrd0 = 0
         THEN [rc |-> -1, calls |-> <<>>, err |-> "ArchiveSourceNotFound"]
         ELSE ExtractCall(path, who, "initrd0", initrd0, ex)
    ELSE IF cfg.einitrd /\ sdev = EXTRACT_DEV_EMBEDDED
    THEN ExtractCall(path, who, "einitrd", einitrd_len, ex)
    ELSE [rc |-> -EINVAL, calls |-> <<>>, err |-> "ArchiveSourceNotFound"]

\* Places of vfscore_mount_volume where a NULL field is undefined behaviour.
\* The oracle ub names the one at which this build faults (UbNone: at none,
\* assertions are compiled out and a read through NULL yields a zero byte).
UbNone == 0
UbAssert == 1
UbPathRead == 2
UbDrvCmp == 3
UbSdevCmp == 4

\* The number of control options that are "mkmp", counted from position
\* from of the option string s.
RECURSIVE NumMkmp(_, _)
NumMkmp(s, from) ==
    IF from > Len(s) THEN 0
    ELSE (IF /\ from + 3 <= Len(s)
             /\ SubSeq(s, from, from + 3) = MKMP
             /\ (from + 3 = Len(s) \/ s[from + 4] = UKOPTS_ARGS_SEP)
             /\ (from = 1 \/ s[from - 1] = UKOPTS_ARGS_SEP)
          THEN 1 ELSE 0) + NumMkmp(s, from + 1)

\* vv->path[1] is read when some control option is "mkmp".
ReadsPath(buf, d) ==
    d.ukopts # NULL /\ NumMkmp(CStr(buf, d.ukopts), 1) > 0

ExtractRet(buf, pre, x) ==
    VolRet(FALSE, x.rc, pre \o x.calls, buf, NotMounted, x.err)

\* Variant: the mount is made with flags 0.
Mount_noflags(buf, d, who, o, pre) ==
    VolRet(FALSE, o.mres,
           Append(pre, Ev("mount", who, o.mres,
                          [sdev |-> CStr(buf, d.sdev),
                           path |-> CStr(buf, d.path),
                           drv |-> CStr(buf, d.drv),
                           flags |-> 0,
                           opts |-> CStr(buf, d.opts)])),
           buf,
           IF o.mres = 0 THEN CStr(buf, d.path) ELSE NotMounted,
           IF o.mres = 0 THEN "none" ELSE "MountFailed")

\* return mount(vv->sdev, vv->path, vv->drv, vv->flags, vv->opts);
\* the mount list gains the path when the mount succeeds.
Mount(buf, d, who, o, pre) ==
    VolRet(FALSE, o.mres,
           Append(pre, Ev("mount", who, o.mres,
                          [sdev |-> CStr(buf, d.sdev),
                           path |-> CStr(buf, d.path),
                           drv |-> CStr(buf, d.drv),
                           flags |-> IF d.flags = FlagsUninit THEN o.uf
                                     ELSE d.flags,
                           opts |-> CStr(buf, d.opts)])),
           buf,
           IF o.mres = 0 THEN CStr(buf, d.path) ELSE NotMounted,
           IF o.mres = 0 THEN "none" ELSE "MountFailed")

\* if (!strcmp(vv->drv, "extract")) return vfscore_extract_volume(vv);
\* return mount(...);
MountOrExtract(buf, d, who, o, pre) ==
    IF d.drv = NULL /\ o.ub = UbDrvCmp
    THEN VolRet(TRUE, 0, pre, buf, NotMounted, "crash")
    ELSE IF d.drv # NULL /\ CStr(buf, d.drv) = EXTRACT_DRV
    THEN IF d.sdev = NULL /\ o.ub = UbSdevCmp
         THEN VolRet(TRUE, 0, pre, buf, NotMounted, "crash")
         ELSE ExtractRet(buf, pre,
                         vfscore_extract_volume(
                             IF d.sdev = NULL THEN <<>>
                             ELSE CStr(buf, d.sdev),
                             CStr(buf, d.path), who, o.ex))
    ELSE Mount(buf, d, who, o, pre)

\* Variant: the result of the control options is not tested.
AfterUkopts_unchecked(d, who, o, enter, u) ==
    MountOrExtract(u.buf, d, who, o, enter \o u.calls)

\* rc = vfscore_volume_process_ukopts(vv); if (rc < 0) return rc;
AfterUkopts(d, who, o, enter, u) ==
    IF u.rc < 0
    THEN VolRet(FALSE, u.rc, enter \o u.calls, u.buf, NotMounted, u.err)
    ELSE MountOrExtract(u.buf, d, who, o, enter \o u.calls)

\* if (vv->ukopts) ...
Ukopts(buf, d, who, o, enter) ==
    IF d.path = NULL /\ o.ub = UbPathRead /\ ReadsPath(buf, d)
    THEN VolRet(TRUE, 0, enter, buf, NotMounted, "crash")
    ELSE AfterUkopts(d, who, o, enter,
                     IF d.ukopts # NULL
                     THEN vfscore_volume_process_ukopts(buf, d, who, o.mk)
                     ELSE OptRet(buf, 0, <<>>, "none"))

\* UK_ASSERT(vv->sdev); UK_ASSERT(vv->path);
Asserts(buf, d, who, o, enter) ==
    IF (d.sdev = NULL \/ d.path = NULL) /\ o.ub = UbAssert
    THEN VolRet(TRUE, 0, enter, buf, NotMounted, "crash")
    ELSE Ukopts(buf, d, who, o, enter)

\* The return of vfscore_mount_volume to its caller, or the fault that
\* ended the run, recorded behind the calls made.
MountVolumeRet(who, r) ==
    [r EXCEPT !.calls = Append(@, Ev(IF r.crashed THEN "crash" ELSE "ret",
                                     who, r.rc, [err |-> r.err]))]

\* vfscore_mount_volume(vv).  o holds the results the environment gives:
\* ub (see above), mk (errno of each mkdir), mres (result of mount), ex
\* (result of ukcpio_extract), uf (the value an unwritten flags word holds).
vfscore_mount_volume(buf, d, who, o) ==
    MountVolumeRet(who, Asserts(buf, d, who, o,
                                <<Ev("dispatch", who, 0, Strings(buf, d))>>))

----------------------------------------------------------------------------
(* Root resolver                                                           *)

\* Variant: a configured driver name goes before the ramdisk.
RootDrv_namefirst ==
    IF cfg.rootfs # NullStr THEN cfg.rootfs
    ELSE IF cfg.initrd \/ cfg.einitrd THEN <<"r", "a", "m", "f", "s">>
    ELSE <<>>

\* .drv of the first descriptor.  CONFIG_LIBVFSCORE_ROOTDEV, _ROOTFLAGS and
\* _ROOTOPTS are left undefined in the builds modelled: sdev = "",
\* flags = 0, opts = "".
RootDrv ==
    IF cfg.initrd \/ cfg.einitrd THEN <<"r", "a", "m", "f", "s">>
    ELSE IF cfg.rootfs # NullStr THEN cfg.rootfs
    ELSE <<>>

\* .sdev of the second descriptor.
OverlayDev ==
    IF cfg.initrd THEN EXTRACT_DEV_INITRD0
    ELSE IF cfg.einitrd THEN EXTRACT_DEV_EMBEDDED
    ELSE <<>>

\* A descriptor made of string literals: the literals laid out in one
\* buffer, path first, drv behind it, then sdev.
LitBuf(path, drv, sdev) == ToBuf(path) \o ToBuf(drv) \o ToBuf(sdev)

LitVolume(path, drv, flags) ==
    [sdev |-> Len(path) + Len(drv) + 3, path |-> 1, drv |-> Len(path) + 2,
     flags |-> flags, opts |-> EMPTYLIT, ukopts |-> NULL]

\* struct vfscore_volume vv = { ... }
RootBuf == LitBuf(<<"/">>, RootDrv, <<>>)
RootVol == LitVolume(<<"/">>, RootDrv, 0)
\* struct vfscore_volume vv2 = { ... }
OverlayBuf == LitBuf(<<"/">>, EXTRACT_DRV, OverlayDev)
OverlayVol == LitVolume(<<"/">>, EXTRACT_DRV, 0)

RootRet(r, calls, mounted) ==
    [rc |-> r, calls |-> calls, mounted |-> mounted]

\* rc = vfscore_mount_volume(&vv2); if (rc) return rc; return rc;
RootSecond(r1, r2) ==
    RootRet(r2.rc, r1.calls \o r2.calls, <<r1.mounted>>)

\* rc = vfscore_mount_volume(&vv); if (rc) return rc; then the second
\* descriptor where a ramdisk is configured.
RootFirst(r1, o2) ==
    IF r1.rc # 0
    THEN RootRet(r1.rc, r1.calls,
                 IF r1.mounted = NotMounted THEN <<>> ELSE <<r1.mounted>>)
    ELSE IF cfg.initrd \/ cfg.einitrd
    THEN RootSecond(r1, vfscore_mount_volume(OverlayBuf, OverlayVol,
                                             OVERLAY, o2))
    ELSE RootRet(r1.rc, r1.calls, <<r1.mounted>>)

\* Variant: the second descriptor is dispatched before the first.
rootfs_overlay_first(o1, o2) ==
    IF At(RootBuf, RootVol.drv) = NUL
    THEN RootRet(0, <<>>, <<>>)
    ELSE IF cfg.initrd \/ cfg.einitrd
    THEN RootSecond(vfscore_mount_volume(OverlayBuf, OverlayVol, OVERLAY, o2),
                    vfscore_mount_volume(RootBuf, RootVol, ROOT, o1))
    ELSE RootFirst(vfscore_mount_volume(RootBuf, RootVol, ROOT, o1), o2)

\* Variant: the first descriptor is dispatched whatever its driver.
rootfs_always(o1, o2) ==
    RootFirst(vfscore_mount_volume(RootBuf, RootVol, ROOT, o1), o2)

\* vfscore_automount_rootfs(): o1 and o2 are the environment's results for
\* the first and the second descriptor.
vfscore_automount_rootfs(o1, o2) ==
    IF At(RootBuf, RootVol.drv) = NUL
    THEN RootRet(0, <<>>, <<>>)
    ELSE RootFirst(vfscore_mount_volume(RootBuf, RootVol, ROOT, o1), o2)

----------------------------------------------------------------------------
(* Inputs                                                                  *)

\* CONFIG_LIBVFSCORE_FSTAB_SIZE of the builds modelled.
FstabSize == 3

Entry(fields) == ToBuf(Join(fields, VOLUME_ARGS_SEP))

\* The entries the table is drawn from, each as its fields:
\*   "d:/m:x"           a generic mount
\*   "d:/b"             no driver
\*   ":/n:x:1:o:mkmp"   no source, flags, options, make mount point
EntryFields ==
    { <<<<"d">>, <<"/", "m">>, <<"x">>>>,
      <<<<"d">>, <<"/", "b">>>>,
      <<<<>>, <<"/", "n">>, <<"x">>, <<"1">>, <<"o">>, MKMP>> }

Entries == { Entry(f) : f \in EntryFields }

\* Kconfig offers the boot-supplied and the embedded ramdisk as alternatives.
Configs ==
    { c \in [initrd : BOOLEAN, einitrd : BOOLEAN,
             rootfs : {NullStr, <<"9", "p">>}] :
        ~(c.initrd /\ c.einitrd) }

RamdiskLen == 2

\* Results of the external primitives.
MountResults == {-1, 0, 1}
ExtractResults == {0, -1}
MkdirErrnos == {0, EEXIST, EACCES}
UmountResults == {0, -1}
\* Values an unwritten word may hold.
Garbage == {-1, 0, 1}

IsExtract(buf, d) == d.drv # NULL /\ CStr(buf, d.drv) = EXTRACT_DRV

\* The places at which a dispatch of descriptor d can fault.
UbChoices(buf, d) ==
    {UbNone}
    \cup (IF d.sdev = NULL \/ d.path = NULL THEN {UbAssert} ELSE {})
    \cup (IF d.path = NULL /\ ReadsPath(buf, d) THEN {UbPathRead} ELSE {})
    \cup (IF d.drv = NULL THEN {UbDrvCmp} ELSE {})
    \cup (IF d.sdev = NULL /\ IsExtract(buf, d) THEN {UbSdevCmp} ELSE {})

\* An upper bound of the mkdir calls of a dispatch of d: one per '/' of the
\* path and "mkmp" option.
MkdirBound(buf, d) ==
    IF d.ukopts # NULL /\ d.path # NULL
    THEN Count(CStr(buf, d.path), "/") * NumMkmp(CStr(buf, d.ukopts), 1)
    ELSE 0

\* The results the environment may give to one dispatch of descriptor d,
\* each drawn only where the dispatch can consume it.
Oracles(buf, d) ==
    [ub   : UbChoices(buf, d),
     mk   : [1..MkdirBound(buf, d) -> MkdirErrnos],
     mres : IF IsExtract(buf, d) THEN {0} ELSE MountResults,
     ex   : IF IsExtract(buf, d) THEN ExtractResults ELSE {0},
     uf   : IF d.flags = FlagsUninit THEN {0, 1} ELSE {0}]

NoParse == [rc |-> NoRet]

\* What every specification starts from: nothing parsed, mounted or run.
Fresh ==
    /\ i = 0
    /\ rc = RcUninit
    /\ vv = [sdev |-> NULL, path |-> NULL, drv |-> NULL,
             flags |-> FlagsUninit, opts |-> NULL, ukopts |-> NULL]
    /\ trace = <<>>
    /\ mount_list = <<>>
    /\ ret = NoRet
    /\ pin = <<>>
    /\ pout = NoParse

\* Boot of every configuration over every table of the entries above; a
\* boot-supplied ramdisk is absent, empty or not where the build uses one.
Init ==
    /\ pc = "boot"
    /\ cfg \in Configs
    /\ initrd0 \in (IF cfg.initrd THEN {ABSENT, 0, RamdiskLen} ELSE {ABSENT})
    /\ einitrd_len \in (IF cfg.einitrd THEN {0, RamdiskLen} ELSE {0})
    /\ vfscore_fstab \in [1..FstabSize -> Entries \cup {NullSlot}]
    /\ Fresh

----------------------------------------------------------------------------
(* Boot: vfscore_automount                                                 *)

\* rc = vfscore_automount_rootfs(); if (rc < 0) return rc;
RootfsDone(r) ==
    /\ trace' = trace \o r.calls
                   \o <<Ev("rootfs", ROOT, r.rc, [err |-> "none"])>>
    /\ mount_list' = mount_list \o r.mounted
    /\ IF r.rc < 0
       THEN pc' = "up" /\ ret' = r.rc
       ELSE pc' = "fstab" /\ ret' = ret

AutomountRootfs ==
    /\ pc = "boot"
    /\ \E o1 \in Oracles(RootBuf, RootVol),
          o2 \in Oracles(OverlayBuf, OverlayVol) :
         RootfsDone(vfscore_automount_rootfs(o1, o2))
    /\ UNCHANGED <<cfg, initrd0, einitrd_len, vfscore_fstab, i, rc, vv,
                   pin, pout>>

ParseEv(p) ==
    Ev("parse", i, p.rc, [err |-> p.err, vol |-> Strings(p.buf, p.vv)])

\* rc = vfscore_mount_volume(&vv); if (rc) return rc;
FstabDispatched(p, r) ==
    /\ trace' = Append(trace, ParseEv(p)) \o r.calls
    /\ vfscore_fstab' = [vfscore_fstab EXCEPT ![i + 1] = r.buf]
    /\ vv' = p.vv
    /\ mount_list' = IF r.mounted = NotMounted THEN mount_list
                     ELSE Append(mount_list, r.mounted)
    /\ IF r.crashed
       THEN pc' = "crashed" /\ UNCHANGED <<i, rc, ret>>
       ELSE IF r.rc # 0
       THEN pc' = "up" /\ ret' = r.rc /\ rc' = r.rc /\ UNCHANGED i
       ELSE pc' = "fstab" /\ i' = i + 1 /\ rc' = 0 /\ UNCHANGED ret

\* vfscore_parse_volume(vfscore_fstab[i], &vv); if (rc) return rc;
\* where rc holds g: the parse's result is dropped, so rc is what the
\* previous iteration left, or an unwritten word in the first.
FstabParsed(p, g) ==
    IF g # 0
    THEN /\ pc' = "up"
         /\ ret' = g
         /\ trace' = Append(trace, ParseEv(p))
         /\ vfscore_fstab' = [vfscore_fstab EXCEPT ![i + 1] = p.buf]
         /\ vv' = p.vv
         /\ UNCHANGED <<i, rc, mount_list>>
    ELSE \E o \in Oracles(p.buf, p.vv) :
            FstabDispatched(p, vfscore_mount_volume(p.buf, p.vv, i, o))

\* One iteration of the loop of vfscore_automount_fstab_volumes.
FstabEntry ==
    /\ pc = "fstab"
    /\ i < FstabSize
    /\ vfscore_fstab[i + 1] # NullSlot
    /\ \E g \in (IF rc = RcUninit THEN Garbage ELSE {rc}) :
         FstabParsed(vfscore_parse_volume(vfscore_fstab[i + 1], vv), g)
    /\ UNCHANGED <<cfg, initrd0, einitrd_len, pin, pout>>

\* The loop ends at the table's capacity or at the first NULL slot.
FstabEnd ==
    /\ pc = "fstab"
    /\ ~(i < FstabSize /\ vfscore_fstab[i + 1] # NullSlot)
    /\ pc' = "up"
    /\ ret' = 0
    /\ UNCHANGED <<cfg, initrd0, einitrd_len, vfscore_fstab, i, rc, vv, trace,
                   mount_list, pin, pout>>

----------------------------------------------------------------------------
(* Shutdown: vfscore_autoumount                                            *)

\* uk_list_for_each_entry_reverse: the first entry visited, and the entry
\* visited after entry m (0: the walk is over).
FirstEntry(list) == Len(list)
NextEntry(list, m) == m - 1

RECURSIVE UmountWalk(_, _, _, _)
\* The body of the loop at entry m and the iterations after it:
\* rc = VFS_UNMOUNT(mp, 0); a failure is logged only.
UmountWalk(list, m, res, calls) ==
    IF m = 0 THEN calls
    ELSE UmountWalk(list, NextEntry(list, m), res,
                    Append(calls, Ev("umount", m, res[m],
                                     [path |-> list[m], flags |-> 0])))

RECURSIVE UmountForward(_, _, _, _)
UmountForward(list, m, res, calls) ==
    IF m > Len(list) THEN calls
    ELSE UmountForward(list, m + 1, res,
                       Append(calls, Ev("umount", m, res[m],
                                        [path |-> list[m], flags |-> 0])))

\* Variant: the list is walked from its head.
vfscore_autoumount_forward(list, res) == UmountForward(list, 1, res, <<>>)

\* vfscore_autoumount(): res[m] is what the unmount of entry m returns.
vfscore_autoumount(list, res) ==
    UmountWalk(list, FirstEntry(list), res, <<>>)

Autoumount ==
    /\ pc = "up"
    /\ \E res \in [1..Len(mount_list) -> UmountResults] :
         trace' = trace \o vfscore_autoumount(mount_list, res)
    /\ pc' = "down"
    /\ UNCHANGED <<cfg, initrd0, einitrd_len, vfscore_fstab, i, rc, vv,
                   mount_list, ret, pin, pout>>

Next ==
    \/ AutomountRootfs
    \/ FstabEntry
    \/ FstabEnd
    \/ Autoumount

Spec == Init /\ [][Next]_vars

----------------------------------------------------------------------------
(* The dispatcher over one entry of many shapes                            *)

DispatchSdevs == {<<>>, <<"d">>, EXTRACT_DEV_INITRD0, EXTRACT_DEV_EMBEDDED}
DispatchPaths == {<<>>, <<"/">>, <<"/", "m", "/", "n">>,
                  <<"/", "m", "/", ".", ".">>}
DispatchDrvs == {<<>>, <<"x">>, EXTRACT_DRV}
\* flags and options: neither, or both
DispatchFlagsOpts == {<<<<>>, <<>>>>, <<<<"0", "x", "1", "f">>, <<"o">>>>}
DispatchUkopts == {<<>>, MKMP, <<"u", ",">> \o MKMP}

DispatchEntries ==
    { Entry(<<s, p, d>> \o fo \o <<u>>) :
        s \in DispatchSdevs, p \in DispatchPaths, d \in DispatchDrvs,
        fo \in DispatchFlagsOpts, u \in DispatchUkopts }

\* Boot with a table of one entry: without a root, with every state of the
\* boot-supplied ramdisk; and with an embedded ramdisk as root.
InitDispatch ==
    /\ pc = "boot"
    /\ cfg \in {c \in Configs : c.rootfs = NullStr /\ ~c.initrd}
    /\ initrd0 \in (IF cfg.einitrd THEN {ABSENT}
                    ELSE {ABSENT, 0, RamdiskLen})
    /\ einitrd_len \in (IF cfg.einitrd THEN {0, RamdiskLen} ELSE {0})
    /\ \E e \in DispatchEntries :
         vfscore_fstab = [k \in 1..FstabSize |->
                            IF k = 1 THEN e ELSE NullSlot]
    /\ Fresh

SpecDispatch == InitDispatch /\ [][Next]_vars

----------------------------------------------------------------------------
(* The tokenizer alone                                                     *)

\* Entries of up to MaxFields fields, each field one of ParseFieldSet.
MaxFields == 6

ParseFieldSet ==
    {<<>>, <<"d">>, <<"/", "m">>, <<"0", "x", "1", "f">>, <<"0", "1", "0">>}

ParseInputs == UNION { [1..n -> ParseFieldSet] : n \in 0..MaxFields }

\* pin holds the fields; the entry is their join with ':'.
InitParse ==
    /\ pc = "parse"
    /\ pin \in ParseInputs
    /\ pout = NoParse
    /\ cfg = [initrd |-> FALSE, einitrd |-> FALSE, rootfs |-> NullStr]
    /\ initrd0 = ABSENT
    /\ einitrd_len = 0
    /\ vfscore_fstab = [k \in 1..FstabSize |-> NullSlot]
    /\ i = 0
    /\ rc = RcUninit
    /\ vv = [sdev |-> NULL, path |-> NULL, drv |-> NULL,
             flags |-> FlagsUninit, opts |-> NULL, ukopts |-> NULL]
    /\ trace = <<>>
    /\ mount_list = <<>>
    /\ ret = NoRet

\* vfscore_parse_volume applied to the entry, into a descriptor never
\* written before.
ParseEntry ==
    /\ pc = "parse"
    /\ pout' = vfscore_parse_volume(Entry(pin), vv)
    /\ pc' = "parsed"
    /\ UNCHANGED <<cfg, initrd0, einitrd_len, vfscore_fstab, i, rc, vv,
                   trace, mount_list, ret, pin>>

NextParse == ParseEntry

SpecParse == InitParse /\ [][NextParse]_vars

----------------------------------------------------------------------------
(* The mkmp directive over one entry of many paths                         *)

\* Longest mount path tried.
MaxPath == 6

PathChars == {"/", ".", "a"}

\* Every absolute path of at most MaxPath chars.
MkmpPaths ==
    UNION { { <<"/">> \o t : t \in [1..n -> PathChars] } : n \in 0..(MaxPath - 1) }

\* "d:<path>:x:::mkmp"
MkmpEntries ==
    { Entry(<<<<"d">>, p, <<"x">>, <<>>, <<>>, MKMP>>) : p \in MkmpPaths }

\* Boot without a root and with a table of one entry that asks for its
\* mount point to be made.
InitMkmp ==
    /\ pc = "boot"
    /\ cfg = [initrd |-> FALSE, einitrd |-> FALSE, rootfs |-> NullStr]
    /\ initrd0 = ABSENT
    /\ einitrd_len = 0
    /\ \E e \in MkmpEntries :
         vfscore_fstab = [k \in 1..FstabSize |->
                            IF k = 1 THEN e ELSE NullSlot]
    /\ Fresh

SpecMkmp == InitMkmp /\ [][Next]_vars

----------------------------------------------------------------------------
(* Properties                                                              *)

Events == 1..Len(trace)

\* The number of events of descriptor w whose op is in ops.
Calls(w, ops) ==
    Cardinality({k \in Events : trace[k].who = w /\ trace[k].op \in ops})

IsUmount(e) == e.op = "umount"
Umounts == SelectSeq(trace, IsUmount)

\* The events of the mount transition, without the root resolver's return.
IsBoot(e) == e.op \notin {"umount", "rootfs"}
Boot == SelectSeq(trace, IsBoot)

Booted == pc \in {"up", "down"}

\* C1: the table walk stops at the first entry whose parse or whose mount
\* fails: nothing of the mount transition happens after that failure (the
\* entry whose parse failed is not dispatched, no later entry is touched)
\* and the failure is what vfscore_automount returns.
C1_FailFast ==
    \A k \in Events :
        ( \/ (trace[k].op = "parse" /\ trace[k].res # 0)
          \/ (trace[k].op = "ret" /\ trace[k].who >= 0
                                  /\ trace[k].res # 0) )
        => /\ \A j \in (k + 1)..Len(trace) : trace[j].op = "umount"
           /\ (Booted => ret = trace[k].res)

\* C2: when the root step ends with a non-zero result, no fstab entry is
\* parsed or mounted afterwards and vfscore_automount returns a failure;
\* vfscore_automount returns 0 only when every mount or extraction it
\* attempted succeeded.
C2_AbortOnRootFailure ==
    /\ \A k \in Events :
         (trace[k].op = "rootfs" /\ trace[k].res # 0)
         => /\ \A j \in (k + 1)..Len(trace) : trace[j].op = "umount"
            /\ (Booted => ret # 0)
    /\ (ret = 0 => \A k \in Events :
                     trace[k].op \in {"mount", "extract"}
                     => trace[k].res = 0)

\* C3: after shutdown the unmounts made are one per entry of the mount
\* list, with flags 0, in the reverse of the list's order, whatever each
\* of them returned.
C3_ReverseTeardown ==
    pc = "down" =>
        /\ Len(Umounts) = Len(mount_list)
        /\ \A k \in 1..Len(Umounts) :
             /\ Umounts[k].who = Len(mount_list) + 1 - k
             /\ Umounts[k].arg.path = mount_list[Len(mount_list) + 1 - k]
             /\ Umounts[k].arg.flags = 0

\* Three mounts were unmounted although the first unmount failed.
C3_Witness ==
    /\ pc = "down"
    /\ Len(mount_list) = 3
    /\ Len(Umounts) = 3
    /\ Umounts[1].res # 0
    /\ Umounts[1].arg.path = mount_list[3]

\* Position of an event within the handling of one descriptor.
Phase(e) ==
    CASE e.op = "parse" -> 0
      [] e.op = "dispatch" -> 1
      [] e.op = "mkdir" -> 2
      [] e.op \in {"mount", "extract"} -> 3
      [] OTHER -> 4

\* One event of the mount transition may directly follow another.
Follows(e, f) ==
    \/ /\ e.who < f.who
       /\ (f.who >= 0 => f.op = "parse")
       /\ (e.who >= 0 => e.op = "ret")
    \/ /\ e.who = f.who
       /\ (Phase(e) < Phase(f) \/ (Phase(e) = 2 /\ Phase(f) = 2))

\* The slots a complete walk of the table visits: those before the first
\* NULL slot.
Walked ==
    {k \in 1..FstabSize : \A j \in 1..k : vfscore_fstab[j] # NullSlot}

\* The events b of a mount transition are in order: each may follow the
\* one before, the root is mounted at / and extracted into at /, the k-th
\* parse is of entry k - 1, and every entry handled lies within the table
\* with no NULL slot at or before it.
Ordered(b) ==
    /\ \A k \in 1..(Len(b) - 1) : Follows(b[k], b[k + 1])
    /\ \A k \in 1..Len(b) :
         /\ (b[k].who = ROOT /\ Phase(b[k]) = 3)
            => (b[k].op = "mount" /\ b[k].arg.path = <<"/">>)
         /\ (b[k].who = OVERLAY /\ Phase(b[k]) = 3)
            => /\ b[k].op = "extract" /\ b[k].arg.path = <<"/">>
               /\ (cfg.initrd \/ cfg.einitrd)
               /\ Calls(ROOT, {"mount"}) = 1
         /\ b[k].op = "parse"
            => b[k].who = Cardinality({j \in 1..(k - 1) : b[j].op = "parse"})
         /\ b[k].who >= 0
            => /\ b[k].who < FstabSize
               /\ \A j \in 0..b[k].who : vfscore_fstab[j + 1] # NullSlot

\* C4: the mount transition runs root mount, then the extraction into /,
\* then the fstab entries by increasing index, each parsed and then
\* dispatched before the next is touched; no entry at or behind a NULL
\* slot, or beyond the capacity, is processed, and a transition that
\* returns 0 has parsed every entry before the first NULL slot.
C4_Order ==
    /\ Ordered(Boot)
    /\ (Booted /\ ret = 0)
       => Cardinality({k \in Events : trace[k].op = "parse"})
          = Cardinality(Walked)

\* The root was mounted, the ramdisk extracted and two entries handled.
C4_Witness ==
    /\ Calls(ROOT, {"mount"}) = 1
    /\ Calls(OVERLAY, {"extract"}) = 1
    /\ Calls(0, {"mount"}) = 1
    /\ Calls(1, {"parse"}) = 1
    /\ vfscore_fstab[3] = NullSlot

\* The event of op in ops that descriptor w has (one such event exists).
The(w, ops) ==
    trace[CHOOSE k \in Events : trace[k].who = w /\ trace[k].op \in ops]

\* vfscore_mount_volume returned for descriptor w.
Returned(w) == Calls(w, {"ret"}) = 1

\* The Mount-Option Processor failed for descriptor w.
UkoptsFailed(w) ==
    The(w, {"ret"}).arg.err \in {"UnsafePath", "MountPointCreationFailed"}

\* mkdir fails unless it returns 0 or the directory exists.
MkdirFailed(e) == e.op = "mkdir" /\ e.res # 0 /\ e.res # EEXIST

\* C5: the control options are processed before the mount or extract step:
\* every mkdir of a descriptor precedes its mount or extraction, an entry
\* with option mkmp and a path below / has its directories made, and when
\* the processing fails (a mkdir fails, or the path is unsafe) neither
\* mount nor the extractor is called for that descriptor and the
\* processor's error is what the dispatcher returns.
C5_UkoptsFirst ==
    \A k \in Events :
        /\ trace[k].op = "mkdir"
           => \A j \in 1..(k - 1) :
                ~(trace[j].who = trace[k].who
                  /\ trace[j].op \in {"mount", "extract"})
        /\ MkdirFailed(trace[k])
           => /\ Calls(trace[k].who, {"mount", "extract"}) = 0
              /\ Returned(trace[k].who)
              /\ The(trace[k].who, {"ret"}).res = -trace[k].res
              /\ The(trace[k].who, {"ret"}).arg.err
                 = "MountPointCreationFailed"
        /\ (trace[k].op = "ret" /\ UkoptsFailed(trace[k].who))
           => /\ Calls(trace[k].who, {"mount", "extract"}) = 0
              /\ trace[k].res < 0
              /\ (trace[k].arg.err = "UnsafePath"
                  => trace[k].res = -EINVAL)
        /\ ( /\ trace[k].op = "dispatch"
             /\ Returned(trace[k].who)
             /\ trace[k].arg.path = <<"/", "m", "/", "n">>
             /\ trace[k].arg.ukopts \in {MKMP, <<"u", ",">> \o MKMP} )
           => Calls(trace[k].who, {"mkdir"}) >= 1

\* The second mkdir of an entry failed: the dispatcher returned that error
\* and mounted nothing.
C5_Witness ==
    /\ Calls(0, {"mkdir"}) = 2
    /\ Returned(0)
    /\ The(0, {"ret"}).res = -EACCES
    /\ The(0, {"ret"}).arg.err = "MountPointCreationFailed"
    /\ The(0, {"dispatch"}).arg.drv = <<"x">>

\* Descriptor w is fully populated: written into the code, or the product
\* of a successful parse.
Populated(w) ==
    \/ w < 0
    \/ \E k \in Events :
         trace[k].who = w /\ trace[k].op = "parse" /\ trace[k].res = 0

\* The dispatcher was given descriptor w fully populated, returned, and
\* the control options did not fail.
Dispatched(w) ==
    /\ Calls(w, {"dispatch"}) = 1
    /\ Returned(w)
    /\ Populated(w)
    /\ ~UkoptsFailed(w)

Descriptors == {ROOT, OVERLAY} \cup 0..(FstabSize - 1)

\* The mount made for descriptor w has the descriptor's arguments and its
\* result is the dispatcher's.
MountAsHeld(w) ==
    /\ Calls(w, {"mount"}) = 1
    /\ Calls(w, {"extract"}) = 0
    /\ The(w, {"mount"}).arg.sdev = The(w, {"dispatch"}).arg.sdev
    /\ The(w, {"mount"}).arg.path = The(w, {"dispatch"}).arg.path
    /\ The(w, {"mount"}).arg.drv = The(w, {"dispatch"}).arg.drv
    /\ The(w, {"mount"}).arg.flags = The(w, {"dispatch"}).arg.flags
    /\ The(w, {"mount"}).arg.opts = The(w, {"dispatch"}).arg.opts
    /\ The(w, {"ret"}).res = The(w, {"mount"}).res

\* C6 as stated: for every fully populated descriptor whose control
\* options did not fail the dispatcher performs exactly one privileged
\* operation: the extraction and no mount when the driver is "extract",
\* else one mount with the descriptor's arguments, its result returned.
C6_ExactlyOne ==
    \A w \in Descriptors :
        Dispatched(w)
        => IF The(w, {"dispatch"}).arg.drv = EXTRACT_DRV
           THEN Calls(w, {"extract"}) = 1 /\ Calls(w, {"mount"}) = 0
           ELSE MountAsHeld(w)

\* C6 amended: for every fully populated descriptor whose control options
\* did not fail, driver "extract" never mounts and extracts at most once,
\* and it extracts nothing exactly when the archive origin is not found,
\* which is then the error returned; any other driver mounts exactly once
\* with the descriptor's arguments, never extracts, and the mount's result
\* is returned unchanged.
C6_AtMostOne ==
    \A w \in Descriptors :
        Dispatched(w)
        => IF The(w, {"dispatch"}).arg.drv = EXTRACT_DRV
           THEN /\ Calls(w, {"mount"}) = 0
                /\ Calls(w, {"extract"}) <= 1
                /\ (Calls(w, {"extract"}) = 0
                    <=> The(w, {"ret"}).arg.err = "ArchiveSourceNotFound")
                /\ (Calls(w, {"extract"}) = 0 => The(w, {"ret"}).res < 0)
                /\ (Calls(w, {"extract"}) = 1
                    => The(w, {"extract"}).arg.path
                       = The(w, {"dispatch"}).arg.path)
           ELSE MountAsHeld(w)

\* The root was mounted once and extracted into; the entry names driver
\* "extract" with a ramdisk that is not there and nothing was extracted.
C6_Witness ==
    /\ Dispatched(ROOT) /\ Calls(ROOT, {"mount"}) = 1
    /\ Dispatched(OVERLAY) /\ Calls(OVERLAY, {"extract"}) = 1
    /\ Dispatched(0)
    /\ The(0, {"dispatch"}).arg.drv = EXTRACT_DRV
    /\ The(0, {"dispatch"}).arg.sdev = EXTRACT_DEV_INITRD0
    /\ Calls(0, {"mount", "extract"}) = 0
    /\ The(0, {"ret"}).arg.err = "ArchiveSourceNotFound"

\* Field k of the entry that was parsed, empty when the entry has fewer.
FieldOf(k) == IF k <= Len(pin) THEN pin[k] ELSE <<>>

ParsedDone == pc = "parsed"

\* C7: an entry whose path field or driver field is missing or empty is
\* rejected with MalformedEntry, whatever the other fields hold.
C7_MalformedEntry ==
    (ParsedDone /\ (FieldOf(2) = <<>> \/ FieldOf(3) = <<>>))
    => /\ pout.rc = -EINVAL
       /\ pout.err = "MalformedEntry"

\* An entry of six fields with an empty driver was rejected.
C7_Witness ==
    /\ ParsedDone
    /\ Len(pin) = 6
    /\ pin[2] = <<"/", "m">>
    /\ pin[3] = <<>>
    /\ pin[6] # <<>>
    /\ pout.err = "MalformedEntry"

\* The path field does not start with '/'.
RelativePath == FieldOf(2) # <<>> /\ FieldOf(2)[1] # "/"

\* C8 as stated: an entry whose path field does not start with '/', or
\* whose path field is empty while the driver is present, is rejected with
\* InvalidPath.
C8_InvalidPath ==
    (ParsedDone /\ (RelativePath \/ (FieldOf(2) = <<>> /\ FieldOf(3) # <<>>)))
    => /\ pout.rc = -EINVAL
       /\ pout.err = "InvalidPath"

\* C8 amended: an entry is rejected with InvalidPath exactly when its path
\* field is not empty, does not start with '/', and its driver field is
\* not empty; an entry with an empty path field and a driver is rejected
\* with MalformedEntry.
C8_InvalidPathAfterMandatory ==
    ParsedDone
    => /\ (RelativePath /\ FieldOf(3) # <<>>)
          <=> pout.err = "InvalidPath"
       /\ pout.err = "InvalidPath" => pout.rc = -EINVAL
       /\ (FieldOf(2) = <<>> /\ FieldOf(3) # <<>>)
          => (pout.rc = -EINVAL /\ pout.err = "MalformedEntry")

\* A relative path with a driver was rejected.
C8_Witness ==
    /\ ParsedDone
    /\ Len(pin) >= 3
    /\ pin[2] = <<"d">>
    /\ pin[3] = <<"d">>
    /\ pout.err = "InvalidPath"

\* The text the parse left for a field of the descriptor.
Got(f) == CStr(pout.buf, pout.vv[f])

\* C9: after a successful parse the source is a string, empty when the
\* field is empty or missing; flags is 0 when the field is empty or
\* missing; options and control options are NULL when the field is empty
\* or missing and are never the empty string; path and driver are not
\* empty and the path starts with '/'.
C9_EmptyFields ==
    (ParsedDone /\ pout.rc = 0)
    => /\ pout.vv.sdev # NULL
       /\ Got("sdev") = FieldOf(1)
       /\ FieldOf(4) = <<>> => pout.vv.flags = 0
       /\ pout.vv.flags # FlagsUninit
       /\ FieldOf(5) = <<>> => pout.vv.opts = NULL
       /\ FieldOf(5) # <<>> => Got("opts") = FieldOf(5)
       /\ FieldOf(6) = <<>> => pout.vv.ukopts = NULL
       /\ FieldOf(6) # <<>> => Got("ukopts") = FieldOf(6)
       /\ Got("opts") # <<>> /\ Got("ukopts") # <<>>
       /\ pout.vv.path # NULL /\ Got("path") # <<>>
       /\ pout.vv.drv # NULL /\ Got("drv") # <<>>
       /\ Got("path")[1] = "/"

\* An entry with empty source, flags and options was parsed.
C9_Witness ==
    /\ ParsedDone
    /\ pout.rc = 0
    /\ Len(pin) = 6
    /\ pin[1] = <<>> /\ pin[4] = <<>> /\ pin[5] = <<>>
    /\ pin[6] # <<>>
    /\ pout.vv.sdev = EMPTYLIT
    /\ pout.vv.opts = NULL

\* The entry has six fields, none empty, and an absolute path.
WellFormed ==
    /\ Len(pin) = 6
    /\ \A k \in 1..Len(pin) : pin[k] # <<>>
    /\ pin[2][1] = "/"

\* The six fields as parsed, flags as text.
Fields ==
    <<Got("sdev"), Got("path"), Got("drv"),
      CStr(pout.buf, pout.strflags), Got("opts"), Got("ukopts")>>

\* C10: a well-formed six-field entry parses, each field returned is the
\* text of the corresponding field of the entry, and the fields joined
\* with ':' are the entry.
C10_RoundTrip ==
    (ParsedDone /\ WellFormed)
    => /\ pout.rc = 0
       /\ \A k \in 1..6 : Fields[k] = pin[k]
       /\ Join(Fields, ":") = Join(pin, ":")

\* A well-formed entry of six fields was parsed.
C10_Witness ==
    /\ ParsedDone
    /\ WellFormed
    /\ pin[4] = <<"0", "x", "1", "f">>
    /\ pout.vv.flags = 31
    /\ pout.rc = 0

IsMkdir(e) == e.op = "mkdir"

\* The mkdir calls made so far, in order.
Mkdirs == SelectSeq(trace, IsMkdir)

\* The mount path entry 0 was dispatched with.
MkPath == The(0, {"dispatch"}).arg.path

\* The dispatcher ran the mkmp directive for entry 0 and returned.
MkmpRan ==
    /\ Calls(0, {"dispatch"}) = 1
    /\ Returned(0)
    /\ The(0, {"dispatch"}).arg.ukopts = MKMP

\* Where the segment that starts behind position k of path p ends: the
\* next '/' or one past the end.
SegEnd(p, k) ==
    IF \E j \in (k + 1)..Len(p) : p[j] = "/"
    THEN CHOOSE j \in (k + 1)..Len(p) :
            p[j] = "/" /\ \A h \in (k + 1)..(j - 1) : p[h] # "/"
    ELSE Len(p) + 1

\* The segment of p behind the '/' at position k.
Segment(p, k) == SubSeq(p, k + 1, SegEnd(p, k) - 1)

Slashes(p) == {k \in 1..Len(p) : p[k] = "/"}

\* Path p has a segment that is "." or "..".
HasDotSegment(p) ==
    \E k \in Slashes(p) : Segment(p, k) \in {<<".">>, <<".", ".">>}

\* Path p is /s1/s2/.../sn: no empty segment but the one of "/".
Plain(p) ==
    p = <<"/">> \/ \A k \in Slashes(p) : Segment(p, k) # <<>>

\* The n-th smallest element of a set of numbers.
Nth(S, n) == CHOOSE x \in S : Cardinality({y \in S : y < x}) = n - 1

\* /s1, /s1/s2, ... of a plain path p, in that order; none for "/".
Prefixes(p) ==
    [n \in 1..(IF p = <<"/">> THEN 0 ELSE Cardinality(Slashes(p))) |->
        SubSeq(p, 1, SegEnd(p, Nth(Slashes(p), n)) - 1)]

\* C11: for a path /s1/.../sn without "." or ".." segment the mkmp
\* directive calls mkdir with mode 0700 on /s1, /s1/s2, ..., in that order
\* and once each; "already exists" counts as success and the walk goes on;
\* another failure ends the walk there and is the error returned; for "/"
\* no mkdir is made and the directive succeeds.
C11_MkmpPrefixes ==
    (MkmpRan /\ Plain(MkPath) /\ ~HasDotSegment(MkPath))
    => /\ Len(Mkdirs) <= Len(Prefixes(MkPath))
       /\ \A k \in 1..Len(Mkdirs) :
            /\ Mkdirs[k].arg.path = Prefixes(MkPath)[k]
            /\ Mkdirs[k].arg.mode = S_IRWXU
            /\ MkdirFailed(Mkdirs[k]) => k = Len(Mkdirs)
       /\ IF Len(Mkdirs) > 0 /\ MkdirFailed(Mkdirs[Len(Mkdirs)])
          THEN /\ The(0, {"ret"}).res = -Mkdirs[Len(Mkdirs)].res
               /\ The(0, {"ret"}).arg.err = "MountPointCreationFailed"
          ELSE /\ Len(Mkdirs) = Len(Prefixes(MkPath))
               /\ ~UkoptsFailed(0)
               /\ Calls(0, {"mount"}) = 1

\* /a/a/a: the first directory existed, the others were made, in order.
C11_Witness ==
    /\ MkmpRan
    /\ MkPath = <<"/", "a", "/", "a", "/", "a">>
    /\ Len(Mkdirs) = 3
    /\ Mkdirs[1].res = EEXIST
    /\ Mkdirs[1].arg.path = <<"/", "a">>
    /\ Mkdirs[3].res = 0
    /\ Mkdirs[3].arg.path = MkPath
    /\ Calls(0, {"mount"}) = 1

\* C12: the mkmp directive fails with UnsafePath for every absolute path
\* that has a segment "." or ".." at any position, whatever the mkdir calls
\* return, and never fails with UnsafePath for a path without such a
\* segment.
C12_UnsafePath ==
    MkmpRan
    => /\ HasDotSegment(MkPath)
          => /\ The(0, {"ret"}).arg.err = "UnsafePath"
             /\ The(0, {"ret"}).res = -EINVAL
       /\ The(0, {"ret"}).arg.err = "UnsafePath" => HasDotSegment(MkPath)

\* C18: when the mkmp directive fails with UnsafePath no mkdir has been
\* made for any prefix of the path, and no mount or extraction follows.
C18_RejectedUntouched ==
    (MkmpRan /\ The(0, {"ret"}).arg.err = "UnsafePath")
    => /\ Calls(0, {"mkdir"}) = 0
       /\ Calls(0, {"mount", "extract"}) = 0

\* Descriptor w was dispatched with driver "extract".
ExtractOf(w) ==
    Dispatched(w) /\ The(w, {"dispatch"}).arg.drv = EXTRACT_DRV

\* The archive origins this build recognizes.
Origins ==
    {EXTRACT_DEV_INITRD0}
    \cup (IF cfg.einitrd THEN {EXTRACT_DEV_EMBEDDED} ELSE {})

\* C13: with driver "extract", when the source is "initrd0" and no
\* boot-supplied ramdisk is present, or the source is no recognized origin,
\* the dispatcher fails with ArchiveSourceNotFound and calls neither the
\* extractor nor mount.
C13_OriginUnavailable ==
    \A w \in Descriptors :
        ( /\ ExtractOf(w)
          /\ \/ The(w, {"dispatch"}).arg.sdev \notin Origins
             \/ /\ The(w, {"dispatch"}).arg.sdev = EXTRACT_DEV_INITRD0
                /\ initrd0 = ABSENT )
        => /\ The(w, {"ret"}).arg.err = "ArchiveSourceNotFound"
           /\ The(w, {"ret"}).res < 0
           /\ Calls(w, {"extract", "mount"}) = 0

\* An entry with driver "extract" and source "initrd0" was dispatched in a
\* boot without ramdisk, after its mount point was made.
C13_Witness ==
    /\ ExtractOf(0)
    /\ The(0, {"dispatch"}).arg.sdev = EXTRACT_DEV_INITRD0
    /\ initrd0 = ABSENT
    /\ ~cfg.einitrd
    /\ Calls(0, {"mkdir"}) = 2
    /\ The(0, {"ret"}).res = -1

\* C14: with driver "extract", when the origin resolves to a region of
\* length zero the extractor is still called, once, on the descriptor's
\* path with length 0, and the dispatcher returns success when the
\* extractor does.
C14_EmptyArchive ==
    \A w \in Descriptors :
        ( /\ ExtractOf(w)
          /\ \/ /\ The(w, {"dispatch"}).arg.sdev = EXTRACT_DEV_INITRD0
                /\ initrd0 = 0
             \/ /\ The(w, {"dispatch"}).arg.sdev = EXTRACT_DEV_EMBEDDED
                /\ cfg.einitrd
                /\ einitrd_len = 0 )
        => /\ Calls(w, {"extract"}) = 1
           /\ Calls(w, {"mount"}) = 0
           /\ The(w, {"extract"}).arg.vlen = 0
           /\ The(w, {"extract"}).arg.path = The(w, {"dispatch"}).arg.path
           /\ (The(w, {"extract"}).res = 0 => The(w, {"ret"}).res = 0)

\* vfscore_automount_rootfs has returned.
RootStepDone == \E k \in Events : trace[k].op = "rootfs"

\* vfscore_automount_rootfs has just returned.
RootReturned == RootStepDone /\ trace[Len(trace)].op = "rootfs"

\* The driver the policy gives the root: "ramfs" with a ramdisk, else the
\* configured name, else none.
PolicyDrv ==
    IF cfg.initrd \/ cfg.einitrd THEN <<"r", "a", "m", "f", "s">>
    ELSE IF cfg.rootfs = NullStr THEN <<>>
    ELSE cfg.rootfs

\* C15: with no root driver and no ramdisk configured the root resolver
\* returns 0 without a dispatch, mount, extraction or mkdir, and the fstab
\* table is processed after it: its first entry, when set, is parsed.
C15_NoRootConfigured ==
    (RootStepDone /\ PolicyDrv = <<>>)
    => /\ \A k \in Events :
            trace[k].who \in {ROOT, OVERLAY}
            => (trace[k].op = "rootfs" /\ trace[k].res = 0)
       /\ trace[1].op = "rootfs"
       /\ pc # "boot"
       /\ (Booted /\ vfscore_fstab[1] # NullSlot) => Calls(0, {"parse"}) = 1
       /\ (Booted /\ ret = 0) =>
             Cardinality({k \in Events : trace[k].op = "parse"})
             = Cardinality(Walked)

\* Nothing is configured as root and three entries were mounted.
C15_Witness ==
    /\ PolicyDrv = <<>>
    /\ Booted
    /\ ret = 0
    /\ trace[1].op = "rootfs"
    /\ Calls(0, {"mount"}) = 1
    /\ Calls(2, {"mount"}) = 1
    /\ Len(mount_list) = 3

\* C16: the root descriptor has path "/" and the driver of the policy
\* ("ramfs" with a ramdisk even when a root driver is named, else the
\* name); it is dispatched exactly when that driver is not empty.  The
\* second descriptor (driver "extract", path "/", source "initrd0" or
\* "embedded") is dispatched exactly when a ramdisk is configured and the
\* first dispatch returned 0, and after it; when the first fails no
\* extraction is attempted.  Stated of the state in which the root
\* resolver returns.
C16_RootPolicy ==
    RootReturned
    => /\ Calls(ROOT, {"dispatch"}) = (IF PolicyDrv = <<>> THEN 0 ELSE 1)
       /\ Calls(ROOT, {"dispatch"}) = 1
          => /\ The(ROOT, {"dispatch"}).arg.path = <<"/">>
             /\ The(ROOT, {"dispatch"}).arg.drv = PolicyDrv
             /\ Calls(ROOT, {"mount"}) = 1
             /\ The(ROOT, {"mount"}).arg.drv = PolicyDrv
             /\ The(ROOT, {"mount"}).arg.path = <<"/">>
             /\ Returned(ROOT)
       /\ Calls(OVERLAY, {"dispatch"})
          = (IF /\ (cfg.initrd \/ cfg.einitrd)
                /\ The(ROOT, {"ret"}).res = 0
             THEN 1 ELSE 0)
       /\ Calls(OVERLAY, {"dispatch"}) = 0
          => Calls(OVERLAY, {"extract", "mount", "mkdir"}) = 0
       /\ Calls(OVERLAY, {"dispatch"}) = 1
          => /\ The(OVERLAY, {"dispatch"}).arg.drv = EXTRACT_DRV
             /\ The(OVERLAY, {"dispatch"}).arg.path = <<"/">>
             /\ The(OVERLAY, {"dispatch"}).arg.sdev
                = (IF cfg.initrd THEN EXTRACT_DEV_INITRD0
                   ELSE EXTRACT_DEV_EMBEDDED)
             /\ Calls(OVERLAY, {"mount"}) = 0
             /\ \A k \in Events :
                  trace[k].who = OVERLAY
                  => \A j \in k..Len(trace) :
                       trace[j].who = ROOT => trace[j].op = "rootfs"

\* A root driver is named and a ramdisk configured: ramfs was mounted and
\* the ramdisk extracted.
C16_Witness ==
    /\ RootStepDone
    /\ cfg.initrd
    /\ cfg.rootfs # NullStr
    /\ The(ROOT, {"mount"}).arg.drv = <<"r", "a", "m", "f", "s">>
    /\ Calls(OVERLAY, {"extract"}) = 1
    /\ The(OVERLAY, {"extract"}).res = 0

RECURSIVE Collapse(_)
\* Path p with each run of '/' collapsed to one '/'.
Collapse(p) ==
    IF Len(p) < 2 THEN p
    ELSE IF p[1] = "/" /\ p[2] = "/" THEN Collapse(Tail(p))
    ELSE <<p[1]>> \o Collapse(Tail(p))

\* The paths of a sequence of mkdir events, runs of '/' collapsed.
CollapsedPaths(calls) ==
    [k \in 1..Len(calls) |-> Collapse(calls[k].arg.path)]

\* What the mkmp directive does on path q when every mkdir succeeds.
DirectiveOn(q) ==
    IF q = <<"/">> THEN OptRet(ToBuf(q), 0, <<>>, "none")
    ELSE vfscore_ukopt_mkmp(ToBuf(q), 1, 0, [k \in 1..Len(q) |-> 0], <<>>)

\* The directive did on path p what it does on path q.
SameWalk(p, q) ==
    /\ CollapsedPaths(Mkdirs) = CollapsedPaths(DirectiveOn(q).calls)
    /\ (The(0, {"ret"}).arg.err = "UnsafePath") = HasDotSegment(q)
    /\ UkoptsFailed(0) = (DirectiveOn(q).rc # 0)

\* C17: on a path with runs of '/' anywhere the mkmp directive, when no
\* mkdir fails, never calls mkdir on an empty path, makes the directories
\* it makes on the path with each run collapsed to one '/', in the same
\* order, and reports UnsafePath exactly when the collapsed path has a "."
\* or ".." segment.
C17_CollapsedRuns ==
    (MkmpRan /\ \A k \in 1..Len(Mkdirs) : ~MkdirFailed(Mkdirs[k]))
    => /\ \A k \in 1..Len(Mkdirs) : Mkdirs[k].arg.path # <<>>
       /\ SameWalk(MkPath, Collapse(MkPath))

\* C20: when the mkmp directive succeeds the path is, char for char, the
\* string it was given: the mount that follows is made on the whole mount
\* path, and the entry's buffer holds it afterwards.
C20_PathIntact ==
    (MkmpRan /\ Populated(0) /\ ~UkoptsFailed(0))
    => /\ Calls(0, {"mount"}) = 1
       /\ The(0, {"mount"}).arg.path = MkPath
       /\ CStr(vfscore_fstab[1], vv.path) = MkPath
       /\ MkPath = The(0, {"parse"}).arg.vol.path

\* The three directories of /a/a/a were made, and /a/a/a was mounted.
C20_Witness ==
    /\ MkmpRan
    /\ Calls(0, {"mkdir"}) = 3
    /\ \A k \in 1..Len(Mkdirs) : Mkdirs[k].res = 0
    /\ The(0, {"mount"}).arg.path = <<"/", "a", "/", "a", "/", "a">>
    /\ The(0, {"mount"}).res = 0
    /\ mount_list = <<<<"/", "a", "/", "a", "/", "a">>>>

\* C19: at every call of vfscore_mount_volume the descriptor has source,
\* path and driver set, its path starts with '/', and for an fstab entry
\* its fields are those a successful parse of that entry wrote, flags
\* included: none is left from an earlier entry or was never written.
C19_FullyPopulated ==
    \A k \in Events :
        trace[k].op = "dispatch"
        => /\ trace[k].arg.sdev # NullStr
           /\ trace[k].arg.path # NullStr
           /\ trace[k].arg.drv # NullStr
           /\ trace[k].arg.path # <<>>
           /\ trace[k].arg.path[1] = "/"
           /\ trace[k].arg.flags # FlagsUninit
           /\ Populated(trace[k].who)
           /\ trace[k].who >= 0
              => trace[k].arg = The(trace[k].who, {"parse"}).arg.vol

=============================================================================
